---- MODULE Spec2Model ----
(***************************************************************************)
(* Model of the field-merging and formula-resolution engine of             *)
(* rule-table-render:                                                      *)
(*   ScenarioBuilder._merge_fields / _compute_values   (render_html)       *)
(*   TemplateRenderer._compute_values                  (render_json)       *)
(*                                                                         *)
(* Python dicts are functions whose DOMAIN is the set of keys present, so  *)
(* "key in d" and d.get(key) keep their difference.  Numbers are exact     *)
(* rationals <<n, d>> in lowest terms (d > 0), so that 12 / 3 == 4 as in   *)
(* Python, and None is <<0, 0>>.  A formula string is modelled by its      *)
(* parsed expression.                                                      *)
(***************************************************************************)
EXTENDS Integers, Sequences, FiniteSets, TLC

VARIABLES
    variant,        \* "html": ScenarioBuilder, "json": TemplateRenderer
    globals_cfg,    \* the globals catalogue  {"fields": [...]}
    scenario_cfg,   \* the scenario config    {"use_fields", "overrides", "fields"}
    fields,         \* the merged field list handed to _compute_values
    inputs,         \* the inputs mapping handed to _compute_values
    ctx,            \* the evaluation context
    symtable,       \* engine.symtable (user symbols of the asteval Interpreter)
    passes,         \* number of iterations of "for _ in range(8)" begun
    changed,        \* the changed flag of the last pass
    pc,             \* control position
    call,           \* 1: first call of _compute_values, 2: the call fed with its result
    seeded,         \* ctx as it stood when the seeding loop of this call ended
    evaluated,      \* ids of the calc fields whose formula was evaluated in this call
    undef,          \* ids of the calc fields whose formula was evaluated while it
                    \* referenced an id that was not a key of ctx
    raised,         \* the key of the KeyError raised by _merge_fields, "" if none
    first           \* what the first call returned, and how its loop stopped

vars == <<variant, globals_cfg, scenario_cfg, fields, inputs, ctx, symtable,
          passes, changed, pc, call, seeded, evaluated, undef, raised, first>>

----------------------------------------------------------------------------
(* Bounds of the model *)

\* longest use_fields list of the merge configurations
MaxUse == 2
\* longest scenario-local field list
MaxLocal == 2

\* a mutant: one pass more
MaxPassesOneMore == 8 + 1

\* range(8): the iteration budget of the pass loop
MaxPasses == 8

----------------------------------------------------------------------------
(* Values *)

None == <<0, 0>>
Num(k) == <<k, 1>>
IsNum(v) == v[2] # 0

Abs(n) == IF n < 0 THEN -n ELSE n

RECURSIVE Gcd(_, _)
Gcd(a, b) == IF b = 0 THEN a ELSE Gcd(b, a % b)

\* the rational n / d (d # 0) in lowest terms with a positive denominator
Rat(n, d) ==
    LET g == Gcd(Abs(n), Abs(d))
        s == IF d < 0 THEN -1 ELSE 1
    IN  <<(s * n) \div g, Abs(d) \div g>>

\* dict helpers
Has(d, k) == k \in DOMAIN d
Get(d, k, dflt) == IF k \in DOMAIN d THEN d[k] ELSE dflt
Put(d, k, v) == [x \in DOMAIN d \cup {k} |-> IF x = k THEN v ELSE d[x]]

\* a mutant: symbols already in the table are not refreshed
UpdateKeepOld(d, e) == [x \in DOMAIN d \cup DOMAIN e |-> IF x \in DOMAIN d THEN d[x] ELSE e[x]]

\* d.update(e)
Update(d, e) == [x \in DOMAIN d \cup DOMAIN e |-> IF x \in DOMAIN e THEN e[x] ELSE d[x]]
EmptyDict == [x \in {} |-> None]

----------------------------------------------------------------------------
(* Formulas: engine(field["formula"]) *)

\* "x + k", "x / y", and a literal
AddK(x, k) == [op |-> "addk", x |-> x, k |-> k]
Div(x, y)  == [op |-> "div", x |-> x, y |-> y]
Lit(v)     == [op |-> "lit", v |-> v]

\* the free variables of a formula
Refs(f) ==
    CASE f.op = "addk" -> {f.x}
      [] f.op = "div"  -> {f.x, f.y}
      [] f.op = "lit"  -> {}

\* engine(formula) over the symbol table st.  Interpreter.__call__ is
\* eval(expr, show_errors=True, raise_errors=False): an exception raised
\* inside the expression (NameError for a name missing from the symbol
\* table, TypeError for None + 1, ZeroDivisionError) is recorded in
\* engine.error and printed, and the call returns None.
Eval(f, st) ==
    CASE f.op = "lit" -> f.v
      [] f.op = "addk" ->
            IF ~Has(st, f.x) \/ ~IsNum(st[f.x]) THEN None
            ELSE Rat(st[f.x][1] + f.k * st[f.x][2], st[f.x][2])
      [] f.op = "div" ->
            IF ~Has(st, f.x) \/ ~Has(st, f.y) THEN None
            ELSE IF ~IsNum(st[f.x]) \/ ~IsNum(st[f.y]) \/ st[f.y][1] = 0 THEN None
            ELSE Rat(st[f.x][1] * st[f.y][2], st[f.x][2] * st[f.y][1])

----------------------------------------------------------------------------
(* Field definitions *)

\* a mutant: the source is not looked at
IsCalcAnySource(f) == Has(f, "formula")

\* field.get("source") == "calc" and "formula" in field
IsCalc(f) == Has(f, "source") /\ f.source = "calc" /\ Has(f, "formula")

\* the seeding test on the source:
\*   render_html:  field.get("source") == "user"
\*   render_json:  field.get("source", "user") == "user"
IsUser(f, v) ==
    IF v = "json" THEN ~Has(f, "source") \/ f.source = "user"
    ELSE Has(f, "source") /\ f.source = "user"

\* field.get("default")
DefaultOf(f) == Get(f, "default", None)

----------------------------------------------------------------------------
(* _merge_fields *)

\* cfg.get(key, dflt)
CfgGet(cfg, k, dflt) == IF k \in DOMAIN cfg THEN cfg[k] ELSE dflt

\* gmap = {field["id"]: field for field in globals_cfg.get("fields", [])}
\* (a later field of the same id replaces an earlier one)
GMap(g) ==
    LET fs == CfgGet(g, "fields", <<>>)
        ids == {fs[i].id : i \in 1..Len(fs)}
        last(id) == CHOOSE i \in 1..Len(fs) :
                        /\ fs[i].id = id
                        /\ \A j \in 1..Len(fs) : fs[j].id = id => j <= i
    IN  [id \in ids |-> fs[last(id)]]

\* a mutant: the global definition's own source is kept
MergeOneKeepSource(base, ov) ==
    LET b1 == IF Has(ov, "unit") THEN Put(base, "unit", ov["unit"]) ELSE base
    IN  IF Has(ov, "default") THEN Put(b1, "default", ov["default"]) ELSE b1

\* the body of the use_fields loop: copy, apply the unit / default
\* overrides that are present, force source = "user"
MergeOne(base, ov) ==
    LET b1 == IF Has(ov, "unit") THEN Put(base, "unit", ov["unit"]) ELSE base
        b2 == IF Has(ov, "default") THEN Put(b1, "default", ov["default"]) ELSE b1
    IN  Put(b2, "source", "user")

\* the use_fields loop from position i on, merged holding the fields
\* appended so far; gmap[field_id] raises KeyError for an unknown id
RECURSIVE Sourced(_, _, _, _, _)
Sourced(gmap, use, ovs, i, merged) ==
    IF i > Len(use) THEN [ok |-> TRUE, key |-> "", fields |-> merged]
    ELSE IF use[i] \notin DOMAIN gmap
         THEN [ok |-> FALSE, key |-> use[i], fields |-> <<>>]
         ELSE Sourced(gmap, use, ovs, i + 1,
                      Append(merged, MergeOne(gmap[use[i]], Get(ovs, use[i], EmptyDict))))

\* mutants of the merge: unknown ids are skipped; a scenario-local field
\* whose id is already in the list is dropped
RECURSIVE SourcedSkip(_, _, _, _, _)
SourcedSkip(gmap, use, ovs, i, merged) ==
    IF i > Len(use) THEN [ok |-> TRUE, key |-> "", fields |-> merged]
    ELSE IF use[i] \notin DOMAIN gmap
         THEN SourcedSkip(gmap, use, ovs, i + 1, merged)
         ELSE SourcedSkip(gmap, use, ovs, i + 1,
                      Append(merged, MergeOne(gmap[use[i]], Get(ovs, use[i], EmptyDict))))

MergeFieldsSkip(g, s) ==
    LET r == SourcedSkip(GMap(g), CfgGet(s, "use_fields", <<>>),
                         CfgGet(s, "overrides", EmptyDict), 1, <<>>)
    IN  [r EXCEPT !.fields = r.fields \o CfgGet(s, "fields", <<>>)]

MergeFieldsDedup(g, s) ==
    LET r == Sourced(GMap(g), CfgGet(s, "use_fields", <<>>),
                     CfgGet(s, "overrides", EmptyDict), 1, <<>>)
        seen == {r.fields[i].id : i \in 1..Len(r.fields)}
        keep(f) == f.id \notin seen
    IN  IF r.ok THEN [r EXCEPT !.fields = r.fields \o SelectSeq(CfgGet(s, "fields", <<>>), keep)]
        ELSE r

\* _merge_fields(globals_cfg, scenario_cfg): the sourced fields followed
\* by merged.extend(scenario_cfg.get("fields", [])), or the KeyError
MergeFields(g, s) ==
    LET r == Sourced(GMap(g), CfgGet(s, "use_fields", <<>>),
                     CfgGet(s, "overrides", EmptyDict), 1, <<>>)
    IN  IF r.ok THEN [r EXCEPT !.fields = r.fields \o CfgGet(s, "fields", <<>>)]
        ELSE r

\* a mutant: base = gmap[field_id], so the overrides and the forced
\* source are written into the catalogue's own field
GlobalsInPlace(g, s) ==
    LET fs  == CfgGet(g, "fields", <<>>)
        use == CfgGet(s, "use_fields", <<>>)
        ovs == CfgGet(s, "overrides", EmptyDict)
        hit(i) == /\ \E k \in 1..Len(use) : use[k] = fs[i].id
                  /\ \A j \in 1..Len(fs) : fs[j].id = fs[i].id => j <= i
    IN  IF fs = <<>> THEN g
        ELSE [g EXCEPT !.fields =
                [i \in 1..Len(fs) |->
                    IF hit(i) THEN MergeOne(fs[i], Get(ovs, fs[i].id, EmptyDict))
                    ELSE fs[i]]]

\* the globals catalogue after _merge_fields: base = dict(gmap[field_id])
\* is a copy, every write of the loop goes to the copy
GlobalsAfter(g, s) == g

----------------------------------------------------------------------------
(* _compute_values *)

\* a mutant: ctx = inputs, so every write to ctx is a write to inputs
InputsAliased(ins, c) == c

\* the inputs mapping after writes to ctx: ctx = dict(inputs) is a copy
InputsAfter(ins, c) == ins

\* a mutant of the seeding loop: the default is written over an input
RECURSIVE SeedCtxOverwrite(_, _, _, _)
SeedCtxOverwrite(fs, i, c, v) ==
    IF i > Len(fs) THEN c
    ELSE IF IsUser(fs[i], v)
         THEN SeedCtxOverwrite(fs, i + 1, Put(c, fs[i].id, DefaultOf(fs[i])), v)
         ELSE SeedCtxOverwrite(fs, i + 1, c, v)

\* the seeding loop from position i on:
\*   if <source is user> and field["id"] not in ctx:
\*       ctx[field["id"]] = field.get("default")
RECURSIVE SeedCtx(_, _, _, _)
SeedCtx(fs, i, c, v) ==
    IF i > Len(fs) THEN c
    ELSE IF IsUser(fs[i], v) /\ ~Has(c, fs[i].id)
         THEN SeedCtx(fs, i + 1, Put(c, fs[i].id, DefaultOf(fs[i])), v)
         ELSE SeedCtx(fs, i + 1, c, v)

\* mutants of the comparison: identity instead of equality (a computed
\* number is a new object); a value is written only for an id missing
\* from ctx
UnequalIdentity(c, id, value) == IsNum(value) \/ Get(c, id, None) # value
UnequalOnlyMissing(c, id, value) == ~Has(c, id)

\* ctx.get(field["id"]) != value
Unequal(c, id, value) == Get(c, id, None) # value

\* the inner "for field in fields" loop of one pass from position i on,
\* over the symbol table st of this pass (engine.symtable is filled once,
\* before the loop, and a formula does not assign to it)
RECURSIVE FieldLoop(_, _, _, _)
FieldLoop(fs, i, st, acc) ==
    IF i > Len(fs) THEN acc
    ELSE IF IsCalc(fs[i])
         THEN LET value == Eval(fs[i].formula, st)
                  write == Unequal(acc.ctx, fs[i].id, value)
              IN  FieldLoop(fs, i + 1, st,
                    [ctx |-> IF write THEN Put(acc.ctx, fs[i].id, value) ELSE acc.ctx,
                     changed |-> acc.changed \/ write,
                     evaluated |-> acc.evaluated \cup {fs[i].id},
                     undef |-> IF Refs(fs[i].formula) \subseteq DOMAIN acc.ctx
                               THEN acc.undef ELSE acc.undef \cup {fs[i].id}])
         ELSE FieldLoop(fs, i + 1, st, acc)

----------------------------------------------------------------------------
(* Configurations *)

SeqsUpTo(S, n) == UNION {[1..k -> S] : k \in 0..n}
Distinct(q) == \A i, j \in 1..Len(q) : q[i] = q[j] => i = j
IdsOf(fs) == [i \in 1..Len(fs) |-> fs[i].id]

G_p  == [id |-> "p", label |-> "Principal", unit |-> "VND", default |-> Num(12), source |-> "user"]
G_m  == [id |-> "m", default |-> Num(3)]
G_a  == [id |-> "a", unit |-> "%", source |-> "calc", formula |-> AddK("p", 1)]
G_p2 == [id |-> "p", unit |-> "USD", default |-> Num(6), source |-> "calc"]

Catalogue == [fields |-> <<G_p, G_m, G_a>>]
Catalogues == {Catalogue, [fields |-> <<G_p, G_m, G_p2>>], EmptyDict}

O_none == EmptyDict
O_p    == "p" :> ("default" :> Num(7))
O_pm   == ("p" :> [unit |-> "USD", default |-> None]) @@ ("m" :> [unit |-> "mo"])
O_a    == ("a" :> [default |-> Num(1), label |-> "A"]) @@ ("z" :> [unit |-> "%"])
OverridePool == {O_none, O_p, O_pm, O_a}

L_monthly == [id |-> "a", source |-> "calc", formula |-> Div("p", "m")]
L_a_b  == [id |-> "a", source |-> "calc", formula |-> AddK("b", 1)]
L_b_a  == [id |-> "b", source |-> "calc", formula |-> AddK("a", 1)]
L_c_b  == [id |-> "c", source |-> "calc", formula |-> AddK("b", 1)]
L_a_a  == [id |-> "a", source |-> "calc", formula |-> AddK("a", 1)]
L_c_none == [id |-> "c", source |-> "calc", formula |-> Lit(None)]
L_b_nof == [id |-> "b", source |-> "calc", label |-> "B"]
L_m0   == [id |-> "m", source |-> "user", default |-> Num(0), unit |-> "mo"]
L_q    == [id |-> "q", default |-> Num(9)]
L_p    == [id |-> "p", source |-> "user", default |-> Num(1)]

LocalPool == {L_monthly, L_a_b, L_b_a, L_c_b, L_a_a, L_c_none, L_b_nof, L_m0, L_q}
MergeLocalPool == {L_monthly, L_p, L_q}

I_none == EmptyDict
I_p    == "p" :> Num(6)
I_a    == "a" :> Num(13)
I_bm   == ("b" :> Num(1)) @@ ("m" :> Num(0))
I_am   == ("a" :> Num(13)) @@ ("m" :> Num(4))
InputPool == {I_none, I_p, I_a, I_bm, I_am}

NoCall == [ctx |-> EmptyDict, passes |-> 0, changed |-> FALSE]

InitRest ==
    /\ fields = <<>>
    /\ ctx = EmptyDict
    /\ symtable = EmptyDict
    /\ passes = 0
    /\ changed = FALSE
    /\ call = 1
    /\ seeded = EmptyDict
    /\ evaluated = {}
    /\ undef = {}
    /\ raised = ""
    /\ first = NoCall

\* ScenarioBuilder(globals, scenario, inputs=...) before build()
InitBuilder(cats, uses, ovs, locals, ins) ==
    /\ variant = "html"
    /\ pc = "merge"
    /\ globals_cfg \in cats
    /\ \E u \in uses, o \in ovs, l \in locals :
          scenario_cfg = [use_fields |-> u, overrides |-> o, fields |-> l]
    /\ inputs \in ins
    /\ InitRest

\* a scenario config with the keys of empty value left out
Sparse(cfg) == [k \in {x \in DOMAIN cfg : cfg[x] # <<>>} |-> cfg[k]]
InitSparse(cats, uses, ovs, locals, ins) ==
    /\ variant = "html"
    /\ pc = "merge"
    /\ globals_cfg \in cats
    /\ \E u \in uses, o \in ovs, l \in locals :
          scenario_cfg = Sparse([use_fields |-> u, overrides |-> o, fields |-> l])
    /\ inputs \in ins
    /\ InitRest

\* TemplateRenderer(config, overrides=...) before build_payload()
InitRenderer(locals, ins) ==
    /\ variant = "json"
    /\ pc = "config"
    /\ globals_cfg = EmptyDict
    /\ \E l \in locals : scenario_cfg = [fields |-> l]
    /\ inputs \in ins
    /\ InitRest

\* the configurations of the evaluation runs: ids are unique in the
\* merged list
UniqueUses == {u \in SeqsUpTo({"p", "m", "a", "z"}, MaxUse) : Distinct(u)}
UniqueLocals == {l \in SeqsUpTo(LocalPool, MaxLocal) : Distinct(IdsOf(l))}
UniqueConfig ==
    Distinct(CfgGet(scenario_cfg, "use_fields", <<>>)
             \o IdsOf(CfgGet(scenario_cfg, "fields", <<>>)))

Init ==
    /\ \/ InitBuilder({Catalogue}, UniqueUses, {O_none, O_p}, UniqueLocals, InputPool)
       \/ InitRenderer(UniqueLocals, InputPool)
    /\ UniqueConfig

InitMerge ==
    \/ InitBuilder(Catalogues, SeqsUpTo({"p", "m", "a", "z"}, MaxUse), OverridePool,
                   SeqsUpTo(MergeLocalPool, MaxLocal), {I_none, I_p})
    \/ InitSparse(Catalogues, SeqsUpTo({"p", "m", "a", "z"}, MaxUse), OverridePool,
                  SeqsUpTo(MergeLocalPool, MaxLocal), {I_none, I_p})
    \/ InitRenderer(SeqsUpTo(MergeLocalPool, 1), {I_none})

----------------------------------------------------------------------------
(* Operations *)

\* build(): fields = _merge_fields(globals_cfg, scenario_cfg)
Merge ==
    /\ pc = "merge"
    /\ MergeFields(globals_cfg, scenario_cfg).ok
    /\ fields' = MergeFields(globals_cfg, scenario_cfg).fields
    /\ globals_cfg' = GlobalsAfter(globals_cfg, scenario_cfg)
    /\ pc' = "seed"
    /\ UNCHANGED <<variant, scenario_cfg, inputs, ctx, symtable, passes,
                   changed, call, seeded, evaluated, undef, raised, first>>

\* build(): gmap[field_id] raises KeyError, which build() does not catch
MergeKeyError ==
    /\ pc = "merge"
    /\ ~MergeFields(globals_cfg, scenario_cfg).ok
    /\ raised' = MergeFields(globals_cfg, scenario_cfg).key
    /\ pc' = "KeyError"
    /\ UNCHANGED <<variant, globals_cfg, scenario_cfg, fields, inputs, ctx, symtable,
                   passes, changed, call, seeded, evaluated, undef, first>>

\* build_payload(): _compute_values(config.get("fields", []))
BuildPayload ==
    /\ pc = "config"
    /\ fields' = CfgGet(scenario_cfg, "fields", <<>>)
    /\ pc' = "seed"
    /\ UNCHANGED <<variant, globals_cfg, scenario_cfg, inputs, ctx, symtable, passes,
                   changed, call, seeded, evaluated, undef, raised, first>>

\* ctx = dict(inputs), the seeding loop, engine = Interpreter()
Seed ==
    /\ pc = "seed"
    /\ ctx' = SeedCtx(fields, 1, inputs, variant)
    /\ seeded' = ctx'
    /\ inputs' = InputsAfter(inputs, ctx')
    /\ symtable' = EmptyDict
    /\ pc' = "loop"
    /\ UNCHANGED <<variant, globals_cfg, scenario_cfg, fields, passes, changed,
                   call, evaluated, undef, raised, first>>

\* one iteration of "for _ in range(8)": changed = False,
\* engine.symtable.update(ctx), the loop over the fields
Pass ==
    /\ pc = "loop"
    /\ passes < MaxPasses
    /\ passes = 0 \/ changed
    /\ LET st == Update(symtable, ctx)
           r == FieldLoop(fields, 1, st,
                          [ctx |-> ctx, changed |-> FALSE,
                           evaluated |-> evaluated, undef |-> undef])
       IN  /\ symtable' = st
           /\ ctx' = r.ctx
           /\ changed' = r.changed
           /\ evaluated' = r.evaluated
           /\ undef' = r.undef
    /\ inputs' = InputsAfter(inputs, ctx')
    /\ passes' = passes + 1
    /\ UNCHANGED <<variant, globals_cfg, scenario_cfg, fields, pc, call, seeded,
                   raised, first>>

\* "if not changed: break", or range(8) exhausted; return ctx
Return ==
    /\ pc = "loop"
    /\ passes >= 1
    /\ ~changed \/ passes = MaxPasses
    /\ pc' = "done"
    /\ UNCHANGED <<variant, globals_cfg, scenario_cfg, fields, inputs, ctx, symtable,
                   passes, changed, call, seeded, evaluated, undef, raised, first>>

\* _compute_values called again on the same fields with the returned
\* context as its inputs
Again ==
    /\ pc = "done"
    /\ call = 1
    /\ first' = [ctx |-> ctx, passes |-> passes, changed |-> changed]
    /\ inputs' = ctx
    /\ call' = 2
    /\ pc' = "seed"
    /\ ctx' = EmptyDict
    /\ symtable' = EmptyDict
    /\ seeded' = EmptyDict
    /\ passes' = 0
    /\ changed' = FALSE
    /\ evaluated' = {}
    /\ undef' = {}
    /\ UNCHANGED <<variant, globals_cfg, scenario_cfg, fields, raised>>

Next ==
    \/ Merge
    \/ MergeKeyError
    \/ BuildPayload
    \/ Seed
    \/ Pass
    \/ Return
    \/ Again

Spec == Init /\ [][Next]_vars
SpecMerge == InitMerge /\ [][Next]_vars

----------------------------------------------------------------------------
(* Properties of _merge_fields, checked under SpecMerge *)

UseFields == CfgGet(scenario_cfg, "use_fields", <<>>)
Overrides == CfgGet(scenario_cfg, "overrides", EmptyDict)
LocalFields == CfgGet(scenario_cfg, "fields", <<>>)

\* _merge_fields has returned its list
MergeReturned == variant = "html" /\ pc \in {"seed", "loop", "done"}

\* C1: every sourced field is the globals field of its id with unit and
\* default replaced by the override exactly when the override map of that
\* id has the key, source "user", and every other key as in globals.
C1_OverrideMerge ==
    MergeReturned =>
        \A i \in 1..Len(UseFields) :
            LET g  == GMap(globals_cfg)[UseFields[i]]
                ov == Get(Overrides, UseFields[i], EmptyDict)
                f  == fields[i]
                ovk == {"unit", "default"} \cap DOMAIN ov
            IN  /\ DOMAIN f = DOMAIN g \cup ovk \cup {"source"}
                /\ f["source"] = "user"
                /\ \A k \in ovk : f[k] = ov[k]
                /\ \A k \in DOMAIN g \ (ovk \cup {"source"}) : f[k] = g[k]

\* the example of the claim: unit kept, default overridden, a calc
\* source forced to user
C1_Witness ==
    /\ MergeReturned
    /\ Len(UseFields) = 2
    /\ UseFields[1] = "p" /\ UseFields[2] = "a"
    /\ Overrides = O_p
    /\ GMap(globals_cfg)["p"] = G_p
    /\ fields[1] = [G_p EXCEPT !.default = Num(7)]
    /\ GMap(globals_cfg)["a"].source = "calc"
    /\ fields[2].source = "user"

\* C2: the merged list is the sourced fields in use_fields order followed
\* by every scenario-local field unmodified in declared order, with no
\* deduplication.
C2_Concatenation ==
    MergeReturned =>
        /\ Len(fields) = Len(UseFields) + Len(LocalFields)
        /\ \A i \in 1..Len(UseFields) : fields[i].id = UseFields[i]
        /\ \A j \in 1..Len(LocalFields) : fields[Len(UseFields) + j] = LocalFields[j]

\* a scenario-local field shares its id with a sourced field and both
\* are in the list
C2_Witness ==
    /\ MergeReturned
    /\ UseFields = <<"m", "p">>
    /\ LocalFields = <<L_q, L_p>>
    /\ Len(fields) = 4
    /\ fields[2].id = "p" /\ fields[4] = L_p

\* the first id of use_fields with no field in the globals catalogue
FirstUnknown ==
    LET bad == {i \in 1..Len(UseFields) : UseFields[i] \notin DOMAIN GMap(globals_cfg)}
    IN  UseFields[CHOOSE i \in bad : \A j \in bad : i <= j]

\* C3: when some id of use_fields has no field in the globals catalogue,
\* the merge raises at the first such id and returns no list: nothing is
\* merged and the evaluation never starts.
C3_UnknownFieldFails ==
    (variant = "html" /\ \E i \in 1..Len(UseFields) : UseFields[i] \notin DOMAIN GMap(globals_cfg))
        => /\ pc \in {"merge", "KeyError"}
           /\ fields = <<>>
           /\ pc = "KeyError" => raised = FirstUnknown

\* the merge failed at "z" after a known id had been merged
C3_Witness ==
    /\ pc = "KeyError"
    /\ UseFields = <<"p", "z">>
    /\ "p" \in DOMAIN GMap(globals_cfg)
    /\ raised = "z"

----------------------------------------------------------------------------
(* Properties of _compute_values, checked under Spec *)

\* the seeding loop of the current call has ended
Seeded == pc \in {"loop", "done"}

\* C4: the seeding ends before any calc field is evaluated, and for
\* every user field the seeded context holds the input of its id if inputs
\* has one, and the field's default (None without a default) otherwise.
C4_SeedBeforeCalc ==
    /\ (~Seeded \/ passes = 0) => evaluated = {}
    /\ Seeded =>
          \A i \in 1..Len(fields) :
              IsUser(fields[i], variant) =>
                  /\ Has(seeded, fields[i].id)
                  /\ seeded[fields[i].id] = IF Has(inputs, fields[i].id)
                                             THEN inputs[fields[i].id]
                                             ELSE DefaultOf(fields[i])

\* seeded, no formula evaluated yet: m keeps the input 0 against its
\* default 3, p gets its default 12, and a calc field waits in the list
C4_Witness ==
    /\ pc = "loop" /\ passes = 0 /\ call = 1
    /\ inputs = I_bm
    /\ \E i \in 1..Len(fields) :
          fields[i].id = "m" /\ IsUser(fields[i], variant) /\ DefaultOf(fields[i]) = Num(3)
    /\ \E i \in 1..Len(fields) : fields[i].id = "p" /\ IsUser(fields[i], variant)
    /\ \E i \in 1..Len(fields) : IsCalc(fields[i])
    /\ Get(seeded, "m", None) = Num(0)
    /\ Get(seeded, "p", None) = Num(12)

\* the context the seeding must give: the inputs, plus the default of
\* every user field whose id is no key of inputs
UserIds == {fields[i].id : i \in {j \in 1..Len(fields) : IsUser(fields[j], variant)}}
FieldOf(id) == fields[CHOOSE i \in 1..Len(fields) : fields[i].id = id]
InputsPlusDefaults ==
    [id \in DOMAIN inputs \cup UserIds |->
        IF Has(inputs, id) THEN inputs[id] ELSE DefaultOf(FieldOf(id))]

NoCalcField == \A i \in 1..Len(fields) : ~(Has(fields[i], "source") /\ fields[i].source = "calc")

\* C5: with no calc field in the list, the loop stops on pass 1 and the
\* returned context is exactly the inputs plus the seeded user values.
C5_NoCalcOnePass ==
    (pc = "done" /\ NoCalcField) =>
        /\ passes = 1
        /\ ~changed
        /\ ctx = seeded
        /\ ctx = InputsPlusDefaults

C5_Witness ==
    /\ pc = "done" /\ call = 1 /\ NoCalcField
    /\ Len(fields) = 3
    /\ inputs = I_bm
    /\ DOMAIN ctx = {"a", "b", "m", "p"}

\* the calc fields that are evaluated, and the dependency depth
CalcIdx == {i \in 1..Len(fields) : IsCalc(fields[i])}
DepsOf(i) == {j \in CalcIdx : fields[j].id \in Refs(fields[i].formula)}
SetMax(S) == IF S = {} THEN 0 ELSE CHOOSE x \in S : \A y \in S : y <= x

\* every calc field depends only on calc fields earlier in the list (and
\* on ids that belong to no calc field)
Acyclic == \A i \in CalcIdx : \A j \in DepsOf(i) : j < i

RECURSIVE DepthAt(_)
DepthAt(i) == 1 + SetMax({DepthAt(j) : j \in {k \in DepsOf(i) : k < i}})
ChainDepth == SetMax({DepthAt(i) : i \in CalcIdx})

\* C6 as stated: for an acyclic chain the loop has stopped by pass
\* number depth (a single calc field over user fields: exactly 1 pass).
C6_StopsByDepth ==
    (pc = "done" /\ Acyclic /\ ChainDepth >= 1) => passes <= ChainDepth

\* C6 amended: no pass after pass number depth changes a value, so the
\* loop has stopped by pass number depth + 1.
C6_StopsByDepthPlusOne ==
    (Seeded /\ Acyclic) =>
        /\ passes > ChainDepth => ~changed
        /\ pc = "done" => passes <= ChainDepth + 1

\* monthly = p / m then b = a + 1: depth 2, stopped on pass 3
C6_Witness ==
    /\ pc = "done" /\ call = 1 /\ Acyclic
    /\ ChainDepth = 2
    /\ passes = 3
    /\ Get(ctx, "a", None) = Num(4) /\ Get(ctx, "b", None) = Num(5)

\* C7: a calc field whose formula depends on no calc field is returned
\* with the value of its formula over the seeded context.
C7_DirectEvaluation ==
    pc = "done" =>
        \A i \in CalcIdx :
            DepsOf(i) = {} =>
                Get(ctx, fields[i].id, None) = Eval(fields[i].formula, seeded)

\* monthly = p / m with the input a = 13: 12 / 3 is returned
C7_Witness ==
    /\ pc = "done" /\ call = 1
    /\ \E i \in CalcIdx : fields[i] = L_monthly /\ DepsOf(i) = {}
    /\ inputs = I_a
    /\ Get(seeded, "p", None) = Num(12) /\ Get(seeded, "m", None) = Num(3)
    /\ Get(seeded, "a", None) = Num(13)
    /\ Get(ctx, "a", None) = Num(4)

C9_UndefinedVariableFails ==
    undef # {} => pc # "done"

\* the fields are the pair a = b + 1, b = a + 1, in either order
MutualPair == fields \in {<<L_a_b, L_b_a>>, <<L_b_a, L_a_b>>}

\* C10: for the pair a = b + 1, b = a + 1 with neither id seeded, a
\* context is returned only after 8 passes that each changed a value.
C10_PairNeverConverges ==
    (pc = "done" /\ call = 1 /\ MutualPair /\ ~Has(seeded, "a") /\ ~Has(seeded, "b"))
        => (passes = MaxPasses /\ changed)

C12_AtMostEightPasses ==
    /\ [](passes <= 8)
    /\ []((pc = "loop" /\ passes = 8) => ENABLED Return)
    /\ [][(pc = "loop" /\ passes = 8) =>
            (pc' = "done" /\ ctx' = ctx /\ raised' = raised)]_vars

\* a = a + 1 with the input a = 13: eight passes, each changing a, and
\* 21 is returned
C12_Witness ==
    /\ pc = "done" /\ call = 1
    /\ fields = <<L_a_a>>
    /\ inputs = I_a
    /\ passes = 8 /\ changed
    /\ ctx = "a" :> Num(21)
    /\ raised = ""

\* C13: the returned context has an entry for every calc field whose
\* formula was evaluated at least once, also when the value is None (a
\* missing id counting as unequal to None, so that None is written).
C13_EvaluatedHasEntry ==
    pc = "done" => \A id \in evaluated : Has(ctx, id)

\* C14: when _compute_values returns because a pass changed no value, the
\* returned context is a fixed point: every calc field's formula, evaluated
\* over the returned context, gives the context's entry for that field's id
\* (an absent entry counting as None).
C14_FixedPoint ==
    (pc = "done" /\ ~changed) =>
        \A i \in 1..Len(fields) :
            IsCalc(fields[i]) =>
                Eval(fields[i].formula, ctx) = Get(ctx, fields[i].id, None)

\* c = b + 1 listed before b = a + 1, with the input a = 13: c is None on
\* pass 1, 15 on pass 2, and pass 3 changes nothing
C14_Witness ==
    /\ pc = "done" /\ call = 1 /\ ~changed
    /\ fields = <<L_c_b, L_b_a>>
    /\ inputs = I_a
    /\ passes = 3
    /\ ctx = ("a" :> Num(13)) @@ ("b" :> Num(14)) @@ ("c" :> Num(15))

\* C15: an input is protected against defaults only. In the returned
\* context, an input whose key is the id of a calc field with a formula
\* holds the value the formula had in the last pass whenever that value
\* differs from the input, and an input whose key is the id of no calc
\* field with a formula holds the input's value.
C15_InputsYieldToFormulas ==
    pc = "done" =>
        \A k \in DOMAIN inputs :
            /\ \A i \in CalcIdx :
                  (fields[i].id = k /\ Eval(fields[i].formula, symtable) # inputs[k])
                      => (Has(ctx, k) /\ ctx[k] = Eval(fields[i].formula, symtable)
                                     /\ ctx[k] # inputs[k])
            /\ (\A i \in CalcIdx : fields[i].id # k)
                  => (Has(ctx, k) /\ ctx[k] = inputs[k])

\* inputs a = 13 and m = 4 with the used fields p (default 12) and m
\* (default 3) and the local field a = p / m: a is returned as 3, m as 4
C15_Witness ==
    /\ pc = "done" /\ call = 1 /\ variant = "html"
    /\ inputs = I_am
    /\ UseFields = <<"p", "m">>
    /\ \E i \in CalcIdx : fields[i] = L_monthly
    /\ Get(ctx, "p", None) = Num(12)
    /\ Get(ctx, "m", None) = Num(4)
    /\ Get(ctx, "a", None) = Num(3)

====
